---- MODULE Spec2Model ----
(***************************************************************************)
(* A model of xenoform: the type / signature translation engine            *)
(* (xenoform/types.py, xenoform/utils.py) and the content-addressed build  *)
(* cache with its in-process memoisation (xenoform/compile.py).            *)
(*                                                                         *)
(* Text is modelled as TLA+ strings: TLC evaluates \o, Len and SubSeq on   *)
(* strings, so rendering, splitting and replacing are computed character   *)
(* by character, as the Python code does.                                  *)
(***************************************************************************)
EXTENDS Integers, Sequences, FiniteSets, TLC

(***************************************************************************)
(* String helpers (Python str methods used by the code)                    *)
(***************************************************************************)

\* s[i] of a Python string, 1-based
Char(s, i) == SubSeq(s, i, i)

\* s[i-1:].startswith(pat)
StartsWithAt(s, pat, i) ==
    /\ i + Len(pat) - 1 <= Len(s)
    /\ SubSeq(s, i, i + Len(pat) - 1) = pat

\* s.find(pat, i - 1) + 1: the first occurrence of pat at or after position i,
\* Len(s) + 1 when there is none
StrFind(s, pat, i) ==
    LET hits == {j \in i..Len(s) : StartsWithAt(s, pat, j)}
    IN  IF hits = {} THEN Len(s) + 1
        ELSE CHOOSE j \in hits : \A k \in hits : j <= k

RECURSIVE ReplaceFrom(_, _, _, _)
ReplaceFrom(s, old, new, i) ==
    LET j == StrFind(s, old, i)
    IN  IF j > Len(s) THEN SubSeq(s, i, Len(s))
        ELSE SubSeq(s, i, j - 1) \o new \o ReplaceFrom(s, old, new, j + Len(old))

\* str.replace(old, new): every non-overlapping occurrence, left to right
StrReplace(s, old, new) == ReplaceFrom(s, old, new, 1)

\* old in s
StrContains(s, pat) == \E i \in 1..Len(s) : StartsWithAt(s, pat, i)

RECURSIVE LStrip(_)
LStrip(s) == IF Len(s) > 0 /\ Char(s, 1) = " " THEN LStrip(SubSeq(s, 2, Len(s))) ELSE s

RECURSIVE RStrip(_)
RStrip(s) == IF Len(s) > 0 /\ Char(s, Len(s)) = " " THEN RStrip(SubSeq(s, 1, Len(s) - 1)) ELSE s

\* str.strip()
StrStrip(s) == LStrip(RStrip(s))

RECURSIVE StrJoin(_, _)
\* sep.join(parts)
StrJoin(parts, sep) ==
    IF Len(parts) = 0 THEN ""
    ELSE IF Len(parts) = 1 THEN parts[1]
    ELSE LET h == Len(parts) \div 2
         IN  StrJoin(SubSeq(parts, 1, h), sep) \o sep
             \o StrJoin(SubSeq(parts, h + 1, Len(parts)), sep)

RECURSIVE Flatten(_)
\* concatenation of a sequence of sequences
Flatten(ss) ==
    IF Len(ss) = 0 THEN <<>>
    ELSE IF Len(ss) = 1 THEN ss[1]
    ELSE LET h == Len(ss) \div 2
         IN  Flatten(SubSeq(ss, 1, h)) \o Flatten(SubSeq(ss, h + 1, Len(ss)))

\* list.insert(i, x) with a 0-based index i >= 0: beyond the end it appends
ListInsert(l, i, x) ==
    IF i >= Len(l) THEN Append(l, x)
    ELSE SubSeq(l, 1, i) \o <<x>> \o SubSeq(l, i + 1, Len(l))

\* list.index(x), 0-based; -1 stands for "x not in l"
ListIndex(l, x) ==
    IF \E i \in 1..Len(l) : l[i] = x
    THEN (CHOOSE i \in 1..Len(l) : l[i] = x /\ \A j \in 1..(i - 1) : l[j] # x) - 1
    ELSE -1

(***************************************************************************)
(* xenoform/types.py                                                       *)
(*                                                                         *)
(* A Python type expression is a record [type, args, extras]:              *)
(*   int                       [type |-> "int", args |-> <<>>, ...]        *)
(*   list[int]                 [type |-> "list", args |-> <<int>>, ...]    *)
(*   int | None                [type |-> "UnionType", args |-> <<int,      *)
(*                                NoneType>>]                              *)
(*   Callable[[a, b], r]       [type |-> "Callable", args |-> <<a, b, r>>] *)
(*   NDArray[t]                [type |-> "ndarray", args |-> <<Any,        *)
(*                                dtype[t]>>]                              *)
(*   Annotated[t, e1, ...]     [type |-> "Annotated", args |-> <<t>>,      *)
(*                                extras |-> <<e1, ...>>]                  *)
(* An extra is [kind |-> "qualifier" | "str" | "other", val |-> string].   *)
(***************************************************************************)

T(name) == [type |-> name, args |-> <<>>, extras |-> <<>>]
G(name, args) == [type |-> name, args |-> args, extras |-> <<>>]
Ann(base, extras) == [type |-> "Annotated", args |-> <<base>>, extras |-> extras]
Qual(q) == [kind |-> "qualifier", val |-> q]
Ovr(s) == [kind |-> "str", val |-> s]
Obj(s) == [kind |-> "other", val |-> s]

\* CppQualifier: the format string of each member, split at its "{}"
CppQualifier(q) ==
    CASE q = "Auto"  -> <<"", "">>
      [] q = "Ref"   -> <<"", "&">>
      [] q = "CRef"  -> <<"const ", "&">>
      [] q = "RRef"  -> <<"", "&&">>
      [] q = "Ptr"   -> <<"", "*">>
      [] q = "PtrC"  -> <<"const ", "*">>
      [] q = "CPtr"  -> <<"", "* const">>
      [] q = "CPtrC" -> <<"const ", "* const">>

\* DEFAULT_TYPE_MAPPING.get(t): "" stands for None (no mapping)
DEFAULT_TYPE_MAPPING(t) ==
    CASE t = "None"      -> "void"
      [] t = "int"       -> "int"
      [] t = "bool"      -> "bool"
      [] t = "float"     -> "double"
      [] t = "complex"   -> "std::complex<double>"
      [] t = "str"       -> "std::string"
      [] t = "ndarray"   -> "py::array_t"
      [] t = "bytes"     -> "py::bytes"
      [] t = "list"      -> "std::vector"
      [] t = "set"       -> "std::unordered_set"
      [] t = "dict"      -> "std::unordered_map"
      [] t = "tuple"     -> "std::tuple"
      [] t = "Any"       -> "py::object"
      [] t = "UnionType" -> "std::variant"
      [] t = "Callable"  -> "std::function"
      [] OTHER           -> ""

\* header_requirements.get(t): "" stands for None
header_requirements(t) ==
    CASE t = "std::complex<double>" -> "<pybind11/complex.h>"
      [] t = "std::string"          -> "<string>"
      [] t = "std::vector"          -> "<pybind11/stl.h>"
      [] t = "std::unordered_set"   -> "<pybind11/stl.h>"
      [] t = "std::unordered_map"   -> "<pybind11/stl.h>"
      [] t = "std::tuple"           -> "<pybind11/stl.h>"
      [] t = "py::array_t"          -> "<pybind11/numpy.h>"
      [] t = "std::variant"         -> "<pybind11/stl.h>"
      [] t = "std::optional"        -> "<pybind11/stl.h>"
      [] t = "std::function"        -> "<pybind11/functional.h>"
      [] OTHER                      -> ""

\* the result of a constructor or function that raised
Raised(e) == [ok |-> FALSE, err |-> e]

AllOk(rs) == \A i \in 1..Len(rs) : rs[i].ok

\* the exception of the first element that raised
FirstErr(rs) == rs[CHOOSE i \in 1..Len(rs) : ~rs[i].ok /\ \A j \in 1..(i - 1) : rs[j].ok]

RECURSIVE PyTypeTree(_)
\* PyTypeTree.__init__: [ok, type, subtypes], or the exception raised
PyTypeTree(t) ==
    IF t.type = "Annotated"
    THEN Raised("TypeError")
    ELSE LET n    == Len(t.args)
             args == IF t.type = "Callable" /\ n > 0
                     THEN <<t.args[n]>> \o SubSeq(t.args, 1, n - 1)
                     ELSE t.args
             subs == [i \in 1..Len(args) |-> PyTypeTree(args[i])]
         IN  IF AllOk(subs)
             THEN [ok |-> TRUE, type |-> t.type, subtypes |-> subs]
             ELSE FirstErr(subs)

\* a faulty variant of DropNoneType that keeps the None members
DropNoneTypeKept(ts) == ts

RECURSIVE DropNoneType(_)
\* for t in tree.subtypes if t.type is not NoneType
DropNoneType(ts) ==
    IF Len(ts) = 0 THEN <<>>
    ELSE IF ts[1].type = "NoneType" THEN DropNoneType(Tail(ts))
    ELSE <<ts[1]>> \o DropNoneType(Tail(ts))

\* a faulty variant of InnerVariant that leaves the qualifier on the copy
InnerVariantQualified(self) == [self EXCEPT !.override = ""]

\* subtype = copy(self); subtype.override = None; subtype.qualfier = None
InnerVariant(self) == [self EXCEPT !.override = "", !.qualfier = ""]

RECURSIVE CppTypeTree(_, _, _)
\* CppTypeTree.__init__(tree, override=, qualifier=): "" stands for None
CppTypeTree(tree, override, qualifier) ==
    LET type == DEFAULT_TYPE_MAPPING(tree.type)
    IN  IF type = "" /\ override = ""
        THEN Raised("CppTypeError")
        ELSE
        LET kept == IF tree.type = "ndarray"
                    THEN <<tree.subtypes[2].subtypes[1]>>
                    ELSE DropNoneType(tree.subtypes)
            subs == [i \in 1..Len(kept) |-> CppTypeTree(kept[i], "", "")]
        IN  IF ~AllOk(subs) THEN FirstErr(subs)
            ELSE
            LET self == [ok |-> TRUE, type |-> type, override |-> override,
                         qualfier |-> qualifier, subtypes |-> subs]
            IN  IF type = "std::variant" /\ Len(subs) = Len(tree.subtypes) - 1
                THEN IF Len(subs) > 1
                     THEN [self EXCEPT !.type = "std::optional",
                               !.subtypes = <<InnerVariant(self)>>]
                     ELSE [self EXCEPT !.type = "std::optional"]
                ELSE self

RECURSIVE CppRepr(_)
\* CppTypeTree.__repr__
CppRepr(c) ==
    IF c.override # "" THEN c.override
    ELSE LET subs == [i \in 1..Len(c.subtypes) |-> CppRepr(c.subtypes[i])]
             t == IF c.type = "std::function"
                  THEN c.type \o "<" \o subs[1] \o "(" \o StrJoin(Tail(subs), ", ") \o ")>"
                  ELSE IF Len(subs) > 0
                       THEN c.type \o "<" \o StrJoin(subs, ", ") \o ">"
                       ELSE c.type
         IN  IF c.qualfier # ""
             THEN CppQualifier(c.qualfier)[1] \o t \o CppQualifier(c.qualfier)[2]
             ELSE t

RECURSIVE CppHeaders(_)
\* CppTypeTree.headers(header_requirements)
CppHeaders(c) ==
    IF c.override # "" THEN <<>>
    ELSE (IF header_requirements(c.type) # "" THEN <<header_requirements(c.type)>> ELSE <<>>)
         \o Flatten([i \in 1..Len(c.subtypes) |-> CppHeaders(c.subtypes[i])])

\* a faulty variant of parse_annotation that takes the first extra of several
parse_annotationFirstExtra(origin) ==
    IF origin.type = "Annotated"
    THEN IF origin.extras[1].kind = "qualifier"
         THEN [ok |-> TRUE, base |-> origin.args[1], key |-> "qualifier", override |-> "",
               qualifier |-> origin.extras[1].val]
         ELSE IF origin.extras[1].kind = "str"
         THEN [ok |-> TRUE, base |-> origin.args[1], key |-> "override",
               override |-> origin.extras[1].val, qualifier |-> ""]
         ELSE Raised("TypeError")
    ELSE [ok |-> TRUE, base |-> origin, key |-> "", override |-> "", qualifier |-> ""]

\* parse_annotation: [ok, base, key, override, qualifier] with key the key of
\* the dict returned ("" for the empty dict), or the exception raised
parse_annotation(origin) ==
    IF origin.type = "Annotated"
    THEN IF Len(origin.extras) # 1 THEN Raised("AssertionError")
         ELSE IF origin.extras[1].kind = "qualifier"
         THEN [ok |-> TRUE, base |-> origin.args[1], key |-> "qualifier", override |-> "",
               qualifier |-> origin.extras[1].val]
         ELSE IF origin.extras[1].kind = "str"
         THEN [ok |-> TRUE, base |-> origin.args[1], key |-> "override",
               override |-> origin.extras[1].val, qualifier |-> ""]
         ELSE Raised("TypeError")
    ELSE [ok |-> TRUE, base |-> origin, key |-> "", override |-> "", qualifier |-> ""]

\* translate_type: a CppTypeTree, or the exception raised
translate_type(t) ==
    LET pa == parse_annotation(t)
    IN  IF ~pa.ok THEN pa
        ELSE LET tree == PyTypeTree(pa.base)
             IN  IF ~tree.ok THEN tree
                 ELSE CppTypeTree(tree, pa.override, pa.qualifier)

(***************************************************************************)
(* inspect: a function is [name, params, ret, doc]; a parameter is         *)
(* [name, kind, ann, default]; EmptyAnn is inspect.Parameter.empty and     *)
(* NoDefault the absence of a default.  A default value carries its repr   *)
(* (what str(signature) shows) and its str (what _translate_value reads).  *)
(***************************************************************************)

EmptyAnn == [type |-> "<empty>", args |-> <<>>, extras |-> <<>>]
NoDefault == [has |-> FALSE, repr |-> "", str |-> ""]
Default(r, s) == [has |-> TRUE, repr |-> r, str |-> s]
Param(name, kind, ann, default) ==
    [name |-> name, kind |-> kind, ann |-> ann, default |-> default]

RECURSIVE formatannotation(_)
\* inspect.formatannotation: the text of an annotation in str(signature)
formatannotation(t) ==
    LET args == [i \in 1..Len(t.args) |-> formatannotation(t.args[i])]
    IN  CASE t.type = "Annotated" ->
               "Annotated[" \o args[1]
               \o StrJoin([i \in 1..Len(t.extras) |->
                     ", " \o (IF t.extras[i].kind = "str"
                              THEN "'" \o t.extras[i].val \o "'"
                              ELSE IF t.extras[i].kind = "qualifier"
                              THEN "<CppQualifier." \o t.extras[i].val \o ">"
                              ELSE t.extras[i].val)], "")
               \o "]"
          [] t.type = "UnionType" -> StrJoin(args, " | ")
          [] t.type = "NoneType" -> "None"
          [] t.type = "Ellipsis" -> "..."
          [] t.type = "Callable" /\ Len(args) > 0 ->
               "collections.abc.Callable[["
               \o StrJoin(SubSeq(args, 1, Len(args) - 1), ", ") \o "], "
               \o args[Len(args)] \o "]"
          [] t.type = "X" -> "mod.X"
          [] OTHER -> IF Len(args) > 0
                      THEN t.type \o "[" \o StrJoin(args, ", ") \o "]"
                      ELSE t.type

\* inspect.Parameter.__str__
StrParam(p) ==
    LET named == IF p.ann # EmptyAnn
                 THEN p.name \o ": " \o formatannotation(p.ann)
                 ELSE p.name
        full  == IF p.default.has
                 THEN IF p.ann # EmptyAnn
                      THEN named \o " = " \o p.default.repr
                      ELSE named \o "=" \o p.default.repr
                 ELSE named
    IN  CASE p.kind = "VAR_POSITIONAL" -> "*" \o full
          [] p.kind = "VAR_KEYWORD" -> "**" \o full
          [] OTHER -> full

RECURSIVE SigEntries(_, _, _, _)
\* the loop of inspect.Signature.__str__: the parameters with the "/" and "*"
\* separators; pos is render_pos_only_separator, kw render_kw_only_separator
SigEntries(params, i, pos, kw) ==
    IF i > Len(params)
    THEN IF pos THEN <<"/">> ELSE <<>>
    ELSE LET p == params[i]
             slash == IF p.kind # "POSITIONAL_ONLY" /\ pos THEN <<"/">> ELSE <<>>
             star  == IF p.kind = "KEYWORD_ONLY" /\ kw THEN <<"*">> ELSE <<>>
             pos2  == p.kind = "POSITIONAL_ONLY"
             kw2   == kw /\ p.kind \notin {"VAR_POSITIONAL", "KEYWORD_ONLY"}
         IN  slash \o star \o <<StrParam(p)>> \o SigEntries(params, i + 1, pos2, kw2)

\* str(inspect.signature(func))
StrSignature(f) ==
    "(" \o StrJoin(SigEntries(f.params, 1, FALSE, TRUE), ", ") \o ")"
    \o (IF f.ret # EmptyAnn THEN " -> " \o formatannotation(f.ret) ELSE "")

(***************************************************************************)
(* xenoform/utils.py                                                       *)
(***************************************************************************)

\* _translate_value, applied to str(value)
translate_value(v) ==
    CASE v = "False" -> "false"
      [] v = "True" -> "true"
      [] OTHER -> v

\* the mark of _splitargs at position i: the running sum (accumulate(add)) of
\* +1 for "[" and -1 for "]" over base[1..i]
BracketLevel(base, i) ==
    Cardinality({j \in 1..i : Char(base, j) = "["})
    - Cardinality({j \in 1..i : Char(base, j) = "]"})

\* the positions _splitargs turns into "$" (the commas at level 0), with the
\* "$" the text already holds: split("$") splits at all of them
SplitPoints(base) ==
    {i \in 1..Len(base) :
        \/ Char(base, i) = "," /\ BracketLevel(base, i) = 0
        \/ Char(base, i) = "$"}

RECURSIVE SplitAt(_, _, _)
\* the pieces of base from position i on, cut at the positions in points
SplitAt(base, points, i) ==
    LET rest == {j \in points : j >= i}
    IN  IF rest = {} THEN <<SubSeq(base, i, Len(base))>>
        ELSE LET j == CHOOSE k \in rest : \A m \in rest : k <= m
             IN  <<SubSeq(base, i, j - 1)>> \o SplitAt(base, points, j + 1)

\* _splitargs
splitargs(signature) ==
    LET open  == StrFind(signature, "(", 1)
        close == StrFind(signature, ")", open + 1)
        base  == SubSeq(signature, open + 1, close - 1)
        parts == SplitAt(base, SplitPoints(base), 1)
    IN  [i \in 1..Len(parts) |-> StrStrip(parts[i])]

\* arg_spec.annotations.items(): "return" first, then the annotated
\* parameters in signature order; an item is [name, ann]
RECURSIVE AnnotatedParams(_)
AnnotatedParams(params) ==
    IF Len(params) = 0 THEN <<>>
    ELSE (IF params[1].ann # EmptyAnn
          THEN <<[name |-> params[1].name, ann |-> params[1].ann]>> ELSE <<>>)
         \o AnnotatedParams(Tail(params))

Annotations(f) ==
    (IF f.ret # EmptyAnn THEN <<[name |-> "return", ann |-> f.ret]>> ELSE <<>>)
    \o AnnotatedParams(f.params)

\* arg_spec.varargs / arg_spec.varkw: the name, "" for None
VarName(f, kind) ==
    IF \E i \in 1..Len(f.params) : f.params[i].kind = kind
    THEN f.params[CHOOSE i \in 1..Len(f.params) : f.params[i].kind = kind].name
    ELSE ""

\* defaults[var_name] of translate_function_signature
DefaultOf(f, name) ==
    LET S == {i \in 1..Len(f.params) : f.params[i].name = name}
    IN  IF S = {} THEN NoDefault ELSE f.params[CHOOSE i \in S : TRUE].default

\* the cpptype of each annotation, translated in the loop of
\* translate_function_signature
CppTypes(f) == [i \in 1..Len(Annotations(f)) |-> translate_type(Annotations(f)[i].ann)]

\* one iteration of the loop for the annotation item it with cpptype c:
\* what it appends to arg_defs and arg_annotations
ArgDef(f, it, c) ==
    LET d == DefaultOf(f, it.name)
        base == IF VarName(f, "VAR_POSITIONAL") = it.name
                THEN "py::args " \o it.name
                ELSE IF VarName(f, "VAR_KEYWORD") = it.name
                THEN "const py::kwargs& " \o it.name
                ELSE CppRepr(c) \o " " \o it.name
    IN  IF d.has THEN base \o "=" \o translate_value(d.str) ELSE base

ArgAnnotation(f, it) ==
    LET d == DefaultOf(f, it.name)
        base == "py::arg(" \o "\"" \o it.name \o "\"" \o ")"
    IN  IF d.has THEN base \o "=" \o translate_value(d.str) ELSE base

\* a faulty variant of ReturnSuffix that leaves the suffix out for void
ReturnSuffixNoVoid(ret) == IF ret # "" /\ ret # "void" THEN " -> " \o ret ELSE ""

\* (f" -> {ret}" if ret else ""): "" stands for None
ReturnSuffix(ret) == IF ret # "" THEN " -> " \o ret ELSE ""

\* translate_function_signature: [ok, sig, args, headers], or the exception
\* raised by translate_type
translate_function_signature(f) ==
    LET raw_sig  == splitargs(StrSignature(f))
        pos_only == ListIndex(raw_sig, "/")
        kw_only  == ListIndex(raw_sig, "*")
        items    == Annotations(f)
        cpp      == CppTypes(f)
    IN  IF ~AllOk(cpp) THEN FirstErr(cpp)
        ELSE
        LET idx      == 1..Len(items)
            headers  == Flatten([i \in idx |-> CppHeaders(cpp[i])])
            ret      == IF f.ret # EmptyAnn THEN CppRepr(cpp[1]) ELSE ""
            arg_defs == Flatten([i \in idx |->
                           IF items[i].name = "return" THEN <<>>
                           ELSE <<ArgDef(f, items[i], cpp[i])>>])
            anns     == Flatten([i \in idx |->
                           IF items[i].name = "return"
                              \/ VarName(f, "VAR_POSITIONAL") = items[i].name
                              \/ VarName(f, "VAR_KEYWORD") = items[i].name
                           THEN <<>>
                           ELSE <<ArgAnnotation(f, items[i])>>])
            anns1    == IF pos_only # -1 THEN ListInsert(anns, pos_only, "py::pos_only()") ELSE anns
            anns2    == IF kw_only # -1 THEN ListInsert(anns1, kw_only, "py::kw_only()") ELSE anns1
        IN  [ok |-> TRUE,
             sig |-> "[](" \o StrJoin(arg_defs, ", ") \o ")" \o ReturnSuffix(ret),
             args |-> anns2,
             headers |-> headers]

\* deduplicate: list(dict.fromkeys(params))
deduplicate(params) ==
    Flatten([i \in 1..Len(params) |->
                IF \E j \in 1..(i - 1) : params[j] = params[i]
                THEN <<>> ELSE <<params[i]>>])

\* re.compile(r'^".*\.h|hpp"$').match: a quote, any text, ".h"; or 'hpp"' alone
local_pattern(h) ==
    \/ StartsWithAt(h, "\"", 1) /\ \E i \in 2..Len(h) : StartsWithAt(h, ".h", i)
    \/ h = "hpp\""

\* re.compile(r"^<.*\.h|hpp>$").match
thirdparty_pattern(h) ==
    \/ StartsWithAt(h, "<", 1) /\ \E i \in 2..Len(h) : StartsWithAt(h, ".h", i)
    \/ h = "hpp>"

\* re.compile(r"^<[^.]+>$").match
stdlib_pattern(h) ==
    /\ Len(h) >= 3
    /\ Char(h, 1) = "<"
    /\ Char(h, Len(h)) = ">"
    /\ \A i \in 2..(Len(h) - 1) : Char(h, i) # "."

Pybind11Header == "<pybind11/pybind11.h>"

\* a faulty variant of thirdparty_headers that leaves the header where it is
thirdparty_headersInPlace(matching) == matching \o <<Pybind11Header>>

\* thirdparty_headers.filter(lambda h: h != "<pybind11/pybind11.h>").chain([...])
thirdparty_headers(matching) ==
    SelectSeq(matching, LAMBDA h : h # Pybind11Header) \o <<Pybind11Header>>

\* the four buckets from the stripped headers
Buckets(stripped) ==
    LET local  == SelectSeq(stripped, LAMBDA h : local_pattern(h))
        other1 == SelectSeq(stripped, LAMBDA h : ~local_pattern(h))
        third  == SelectSeq(other1, LAMBDA h : thirdparty_pattern(h))
        other2 == SelectSeq(other1, LAMBDA h : ~thirdparty_pattern(h))
        std    == SelectSeq(other2, LAMBDA h : stdlib_pattern(h))
        other3 == SelectSeq(other2, LAMBDA h : ~stdlib_pattern(h))
    IN  <<deduplicate(other3), deduplicate(local),
          deduplicate(thirdparty_headers(third)), deduplicate(std)>>

\* group_headers(headers)
group_headers(headers) == Buckets([i \in 1..Len(headers) |-> StrStrip(headers[i])])

RECURSIVE StrSplit(_, _)
\* s.split(sep)
StrSplit(s, sep) ==
    LET j == StrFind(s, sep, 1)
    IN  IF j > Len(s) THEN <<s>>
        ELSE <<SubSeq(s, 1, j - 1)>> \o StrSplit(SubSeq(s, j + Len(sep), Len(s)), sep)

\* the values of the dict _parse_macros returns: None, or a string
MacroNone == [none |-> TRUE, val |-> ""]
MacroValue(v) == [none |-> FALSE, val |-> v]

\* lambda kv: (kv[0], kv[1] if len(kv) == 2 else None)
MacroItem(kv) == <<kv[1], IF Len(kv) = 2 THEN MacroValue(kv[2]) ELSE MacroNone>>

\* .collect(dict) of a list of (key, value): the last value of each key
CollectDict(items) ==
    [k \in {items[i][1] : i \in 1..Len(items)} |->
        items[CHOOSE i \in 1..Len(items) :
                 /\ items[i][1] = k
                 /\ \A j \in (i + 1)..Len(items) : items[j][1] # k][2]]

\* _parse_macros(macro_list)
parse_macros(macro_list) ==
    CollectDict([i \in 1..Len(macro_list) |-> MacroItem(StrSplit(macro_list[i], "="))])

(***************************************************************************)
(* xenoform/cppmodule.py (FunctionSpec, ModuleSpec) is not among the       *)
(* sources: the module text and its content hash follow sections 3 and 4.4 *)
(* of the specification.                                                   *)
(***************************************************************************)

\* the token make_source leaves where the build identifier goes
Placeholder == "__HASH__"

\* the attribute of the built module that the isolated check prints
ChecksumAttr == "__checksum__="

RECURSIVE MapChar(_, _, _)
\* s with every character a replaced by b
MapChar(s, a, b) ==
    IF Len(s) = 0 THEN s
    ELSE IF Len(s) = 1 THEN (IF s = a THEN b ELSE s)
    ELSE LET h == Len(s) \div 2
         IN  MapChar(SubSeq(s, 1, h), a, b) \o MapChar(SubSeq(s, h + 1, Len(s)), a, b)

\* The content digest: a deterministic, collision-free function of the text
\* whose value never holds the placeholder (a hex digest has no "_"); the
\* texts of the model hold no "~"
Digest(text) == MapChar(text, "_", "~")

\* FunctionSpec.qualified_cpp_name() of a free function
qualified_cpp_name(name) == "_" \o name

\* ModuleSpec(): the empty accumulator
EmptyModuleSpec == [functions |-> <<>>, headers |-> <<>>]

\* keeps the first occurrence of each element
RECURSIVE Dedup(_, _)
Dedup(l, seen) ==
    IF Len(l) = 0 THEN <<>>
    ELSE IF l[1] \in seen THEN Dedup(Tail(l), seen)
    ELSE <<l[1]>> \o Dedup(Tail(l), seen \cup {l[1]})

\* ModuleSpec.add_function
add_function(mspec, fspec, headers) ==
    [functions |-> Append(mspec.functions, fspec),
     headers |-> Dedup(mspec.headers \o headers, {})]

\* the definition of one function in the module text
FunctionText(fspec) ==
    qualified_cpp_name(fspec.name) \o "=" \o fspec.body \o fspec.arg_annotations \o ";"

\* ModuleSpec.make_source: the text holding the placeholder, and its digest
make_source(mspec) ==
    LET code == StrJoin([i \in 1..Len(mspec.functions) |-> FunctionText(mspec.functions[i])], "")
                \o ChecksumAttr \o Placeholder
    IN  [code |-> code, hashval |-> Digest(code)]

\* what the toolchain builds from a module text: the functions it exposes
HasFunction(text, qname) == StrContains(text, qname \o "=")

\* ... and the value of its __checksum__ attribute
Checksum(text) ==
    LET i == StrFind(text, ChecksumAttr, 1)
    IN  IF i > Len(text) THEN "" ELSE SubSeq(text, i + Len(ChecksumAttr), Len(text))

(***************************************************************************)
(* xenoform/compile.py: registration                                       *)
(***************************************************************************)

\* the names joined by ", " in _check_annotations
\* a faulty variant of MissingParams that stops at the first parameter
MissingParamsFirst(f) ==
    LET idx == {i \in 1..Len(f.params) : f.params[i].ann = EmptyAnn}
    IN  IF idx = {} THEN <<>>
        ELSE <<f.params[CHOOSE i \in idx : \A j \in idx : i <= j].name>>

MissingParams(f) ==
    LET idx == {i \in 1..Len(f.params) : f.params[i].ann = EmptyAnn}
        pick[i \in 0..Len(f.params)] ==
            IF i = 0 THEN <<>>
            ELSE IF i \in idx THEN Append(pick[i - 1], f.params[i].name) ELSE pick[i - 1]
    IN  pick[Len(f.params)]

\* _check_annotations: [ok |-> TRUE], or the AnnotationError raised
check_annotations(f) ==
    LET missing == StrJoin(MissingParams(f), ", ")
                   \o (IF f.ret = EmptyAnn THEN ", (return)" ELSE "")
    IN  IF missing # ""
        THEN [ok |-> FALSE, err |-> "AnnotationError",
              msg |-> "Function " \o f.name \o " has missing annotations: " \o missing]
        ELSE [ok |-> TRUE]

\* the FunctionSpec made of what translate_function_signature returned (tr),
\* unless _check_annotations (chk) or the translation raised
FunctionSpecOf(f, chk, tr) ==
    IF ~chk.ok THEN chk
    ELSE IF ~tr.ok THEN tr
    ELSE [ok |-> TRUE,
          spec |-> [name |-> f.name,
                    body |-> tr.sig \o " {" \o f.doc \o "}",
                    arg_annotations |->
                        StrJoin([i \in 1..Len(tr.args) |-> ", " \o tr.args[i]], "")],
          headers |-> tr.headers]

\* register_function up to the FunctionSpec it builds: [ok, spec, headers],
\* or the exception that ended it
RegisterOutcome(f) == FunctionSpecOf(f, check_annotations(f), translate_function_signature(f))

\* module_spec.add_function, which register_function reaches only when
\* nothing before it raised
AddOutcome(mspec, o) == IF o.ok THEN add_function(mspec, o.spec, o.headers) ELSE mspec

\* what the caller of the decorator sees: "ok", or the exception
OutcomeName(o) == IF o.ok THEN "ok" ELSE o.err

\* no exception
NoRaise == [has |-> FALSE]

\* the exception register_function(f) ended with, if any
RaisedBy(f, o) == IF o.ok THEN NoRaise ELSE [has |-> TRUE, func |-> f, exc |-> o]

\* a faulty variant of RegistryAfter: the function is added before it is translated
RegistryAfterEager(mspec, f) ==
    add_function(mspec, [name |-> f.name, body |-> "", arg_annotations |-> ""], <<>>)

\* _module_registry[module_name] after register_function(f)
RegistryAfter(mspec, f) == AddOutcome(mspec, RegisterOutcome(f))

(***************************************************************************)
(* The process, its threads and the functions it decorates                 *)
(***************************************************************************)

\* requests made in a run of the model (all threads and processes together)
MaxCalls == 3

\* processes that follow the first one on the same module directory
MaxRestarts == 1

\* maxsize of functools.lru_cache, the "limited function cache" of _get_function
LruMaxSize == 128

\* the worker threads of the process
Threads == {"t1", "t2"}

PosOrKw == "POSITIONAL_OR_KEYWORD"

\* test_caching.f
FnF == [name |-> "f", params |-> <<>>, ret |-> T("int"), doc |-> "return 42;"]
\* a function whose body holds the placeholder text
FnG == [name |-> "g", params |-> <<Param("s", PosOrKw, T("str"), NoDefault)>>,
        ret |-> T("str"), doc |-> "return \"__HASH__\";"]
\* test_basic.test_unknown_type
FnUnknown == [name |-> "unknown", params |-> <<Param("x", PosOrKw, T("X"), NoDefault)>>,
              ret |-> T("bool"), doc |-> "return false;"]
\* a parameter and the return without annotation
FnMissing == [name |-> "missing", params |-> <<Param("a", PosOrKw, EmptyAnn, NoDefault)>>,
              ret |-> EmptyAnn, doc |-> ""]
\* only the return without annotation
FnNoReturn == [name |-> "noreturn", params |-> <<Param("a", PosOrKw, T("int"), NoDefault)>>,
               ret |-> EmptyAnn, doc |-> "return a;"]
\* the first and the last parameter without annotation, one of unknown type
FnSomeMissing == [name |-> "somemissing",
                  params |-> <<Param("a", PosOrKw, EmptyAnn, NoDefault),
                               Param("b", PosOrKw, T("X"), NoDefault),
                               Param("c", PosOrKw, EmptyAnn, NoDefault)>>,
                  ret |-> T("int"), doc |-> "return b;"]
\* test_types.test_parse_annotation: Annotated[int, 42]
FnMalformed == [name |-> "malformed",
                params |-> <<Param("a", PosOrKw, Ann(T("int"), <<Obj("42")>>), NoDefault)>>,
                ret |-> T("None"), doc |-> ""]

\* test_basic.test_signature_translation2: f(a, b, /, c, *, d)
FnPosKw == [name |-> "poskw",
            params |-> <<Param("a", "POSITIONAL_ONLY", T("int"), NoDefault),
                         Param("b", "POSITIONAL_ONLY", T("float"), NoDefault),
                         Param("c", PosOrKw, T("int"), NoDefault),
                         Param("d", "KEYWORD_ONLY", T("bool"), NoDefault)>>,
            ret |-> T("None"), doc |-> ""]
\* a function taking *args and **kwargs
FnVar == [name |-> "var",
          params |-> <<Param("a", PosOrKw, T("int"), NoDefault),
                       Param("args", "VAR_POSITIONAL", T("Any"), NoDefault),
                       Param("kwargs", "VAR_KEYWORD", T("Any"), NoDefault)>>,
          ret |-> T("int"), doc |-> "return a;"]

\* the functions the module under test decorates
Decorated == {FnF, FnG}

\* the functions handed to the decorator, among them those it rejects
FuncDefs ==
    Decorated \cup {FnPosKw, FnVar, FnUnknown, FnMissing, FnNoReturn, FnSomeMissing,
                    FnMalformed}

\* positional-only parameters of a generated signature
MaxPosOnly == 2

\* the stand-in for "no such parameter"
Absent == T("<absent>")

\* a parameter of a generated signature: style "none" is x: int,
\* "int" is x: int = 0, "str" is x: str = 'x,y'
Styled(name, kind, style) ==
    CASE style = "none" -> Param(name, kind, T("int"), NoDefault)
      [] style = "int"  -> Param(name, kind, T("int"), Default("0", "0"))
      [] style = "str"  -> Param(name, kind, T("str"), Default("'x,y'", "x,y"))

\* def h(p1, .., /, c, *args: va, d, **kwargs: vk) -> None, with np
\* positional-only, nn plain and nk keyword-only parameters of one style
Signature(np, nn, va, nk, vk, style) ==
    [name |-> "h",
     params |->
        [i \in 1..np |-> Styled("p" \o ToString(i), "POSITIONAL_ONLY", style)]
        \o [i \in 1..nn |-> Styled("c", PosOrKw, style)]
        \o (IF va = Absent THEN <<>> ELSE <<Param("args", "VAR_POSITIONAL", va, NoDefault)>>)
        \o [i \in 1..nk |-> Styled("d", "KEYWORD_ONLY", style)]
        \o (IF vk = Absent THEN <<>> ELSE <<Param("kwargs", "VAR_KEYWORD", vk, NoDefault)>>),
     ret |-> T("None"), doc |-> ""]

\* the return annotations: -> None, -> int, -> list[int], or none at all
Returns == {T("None"), T("int"), G("list", <<T("int")>>), EmptyAnn}

Signatures ==
    {[Signature(np, nn, va, nk, vk, style) EXCEPT !.ret = r] :
        np \in 0..MaxPosOnly, nn \in 0..1, va \in {Absent, T("Any"), T("str"), T("X")},
        nk \in 0..1, vk \in {Absent, T("Any"), T("X")}, style \in {"none", "int", "str"},
        r \in Returns}

\* the type expressions handed to translate_type: a leaf type in one of eleven
\* shapes, bare or Annotated with one of six lists of extras
TypeShapes(l) ==
    {l,
     G("list", <<l>>),
     G("dict", <<T("str"), l>>),
     G("tuple", <<l, T("int")>>),
     G("UnionType", <<l, T("NoneType")>>),
     G("UnionType", <<l, T("bool"), T("NoneType")>>),
     G("UnionType", <<l, T("bool")>>),
     G("list", <<G("UnionType", <<l, T("NoneType")>>)>>),
     G("dict", <<T("str"), G("UnionType", <<l, T("bool"), T("NoneType")>>)>>),
     G("list", <<Ann(l, <<Ovr("uint32_t")>>)>>),
     G("dict", <<T("str"), G("list", <<l>>)>>)}

TypeExtras ==
    {<<>>, <<Ovr("custom_list")>>, <<Ovr("")>>, <<Qual("CRef")>>, <<Qual("CPtrC")>>,
     <<Obj("42")>>, <<Ovr("a"), Ovr("b")>>}

TypeInputs ==
    {IF e = <<>> THEN b ELSE Ann(b, e) :
        b \in UNION {TypeShapes(l) : l \in {T("int"), T("str"), T("float"), T("X")}},
        e \in TypeExtras}

\* the longest list of headers handed to group_headers
MaxHeaders == 3

\* headers of each kind, one of them padded with blanks
HeaderNames ==
    {"\"local.h\"", "<pybind11/pybind11.h>", "<pybind11/stl.h>", "<string>",
     " <string> ", "misc", " <pybind11/pybind11.h>"}

RECURSIVE ListsOf(_, _)
\* the lists of at most n elements of S
ListsOf(S, n) ==
    IF n = 0 THEN {<<>>}
    ELSE ListsOf(S, n - 1) \cup {Append(l, x) : l \in ListsOf(S, n - 1), x \in S}

HeaderLists == ListsOf(HeaderNames, MaxHeaders)

\* the longest list of macro definitions handed to _parse_macros
MaxMacros == 3

\* macro definitions: a bare name, NAME=VALUE, an empty value and a value
\* that holds "="
MacroEntries == {"NDEBUG", "VER=3", "EMPTY=", "EXPR=a=b"}

MacroLists == ListsOf(MacroEntries, MaxMacros)

\* functions registered beyond the size of the function cache
ExtraFuncs == 1

\* the i-th of many small functions of one module
FnNumbered(i) == [name |-> "f" \o ToString(i), params |-> <<>>, ret |-> T("int"), doc |-> ""]

\* the registry after the decorator was applied to FnNumbered(1), ..,
\* FnNumbered(n): add_function appended each FunctionSpec, none needs a header
ManyRegistered(n) ==
    [functions |-> [i \in 1..n |-> RegisterOutcome(FnNumbered(i)).spec],
     headers |-> <<>>]

(***************************************************************************)
(* State: the module directory on disk, which outlives a process, and the  *)
(* memory of the running process                                           *)
(***************************************************************************)

VARIABLES
    source,          \* module.cpp on disk ("" while there is none)
    artifact,        \* the built extension on disk: [exists, text it was built from,
                     \*   by: the process that built it]
    epoch,           \* the running process: 0 the first, 1 the one started after it, ...
    registry,        \* _module_registry[module_name]
    lastReg,         \* the outcome of the latest register_function: "", "ok" or the exception
    raised,          \* the exception the latest register_function ended with, and its argument
    sysmod,          \* the module in sys.modules: [loaded, text]
    cache,           \* the entry of _get_module's @cache: [has, text]
    lru,             \* the keys of _get_function's @lru_cache, oldest first
    pc,              \* [t]: where thread t is in call_function
    fn,              \* [t]: the qualified name t is resolving
    code,            \* [t]: code of _check_build_fetch_module_impl
    hashval,         \* [t]: hashval
    module_checksum, \* [t]: module_checksum: [none, val]
    cwd,             \* [t]: cwd, the directory the impl goes back to ("" outside the build)
    workdir,         \* the current working directory of the process
    steps,           \* [t]: what the current (or latest) run of the impl has done
    result,          \* [t]: the outcome of the latest call: "", "ok" or the exception
    nCalls,          \* requests made so far
    imported,        \* number of "imported compiled module" log lines of the process
    redirected,      \* the keys of its "redirected" log lines, in order
    lateRun,         \* the impl was entered after _get_module had returned a module
    handles,         \* the modules _get_module has returned
    failed,          \* a request of the process has raised out of the impl
    arg,             \* the function or type handed to a translation on its own
    out              \* what that translation returned or raised

vars == <<source, artifact, epoch, registry, lastReg, raised, sysmod, cache, lru, pc, fn, code,
          hashval, module_checksum, cwd, workdir, steps, result, nCalls, imported, redirected,
          lateRun, handles, failed, arg, out>>

diskVars == <<source, artifact, epoch>>
regVars == <<registry, lastReg, raised>>
localVars == <<code, hashval, module_checksum, cwd>>
ghostVars == <<imported, redirected, lateRun, handles, failed>>
pureVars == <<arg, out>>

\* the working directory the process is started in, and module_dir
StartDir == "start"
ModuleDir == "module_dir"

NoChecksum == [none |-> TRUE, val |-> ""]
SomeChecksum(v) == [none |-> FALSE, val |-> v]
NoArtifact == [exists |-> FALSE, text |-> "", by |-> 0]
NotLoaded == [loaded |-> FALSE, text |-> ""]
NoEntry == [has |-> FALSE, text |-> ""]
NoArg == [kind |-> "none"]
Pending == [ok |-> FALSE, err |-> ""]

\* the memory of a process that has just started, but for its registry
FreshMemory ==
    /\ sysmod = NotLoaded
    /\ cache = NoEntry
    /\ lru = <<>>
    /\ pc = [t \in Threads |-> "idle"]
    /\ fn = [t \in Threads |-> ""]
    /\ code = [t \in Threads |-> ""]
    /\ hashval = [t \in Threads |-> ""]
    /\ module_checksum = [t \in Threads |-> NoChecksum]
    /\ cwd = [t \in Threads |-> ""]
    /\ workdir = StartDir
    /\ steps = [t \in Threads |-> <<>>]
    /\ result = [t \in Threads |-> ""]
    /\ imported = 0
    /\ redirected = <<>>
    /\ lateRun = FALSE
    /\ handles = {}
    /\ failed = FALSE

\* an empty module directory and the first process on it
FreshStart ==
    /\ source = ""
    /\ artifact = NoArtifact
    /\ epoch = 0
    /\ nCalls = 0
    /\ FreshMemory

Init ==
    /\ FreshStart
    /\ registry = EmptyModuleSpec
    /\ lastReg = ""
    /\ raised = NoRaise
    /\ arg = NoArg
    /\ out = Pending

(***************************************************************************)
(* The caches of functools                                                 *)
(***************************************************************************)

InSeq(l, x) == \E i \in 1..Len(l) : l[i] = x

Without(l, x) == SelectSeq(l, LAMBDA y : y # x)

\* a faulty variant of LruLookup: the function cache never answers
LruLookupNever(l, key) == FALSE

\* lru_cache: is key cached
LruLookup(l, key) == InSeq(l, key)

\* lru_cache on a hit: key becomes the most recently used
LruTouch(l, key) == Append(Without(l, key), key)

\* lru_cache after a miss: the result is stored, the oldest key evicted when full
LruStore(l, key) ==
    IF InSeq(l, key) THEN l
    ELSE IF Len(l) >= LruMaxSize THEN Append(Tail(l), key)
    ELSE Append(l, key)

\* a faulty variant of CacheLookup: the module cache never answers
CacheLookupNever(entry) == FALSE

\* functools.cache of _get_module: is the module name cached
CacheLookup(entry) == entry.has

(***************************************************************************)
(* xenoform/compile.py: call_function, _get_function, _get_module and      *)
(* _check_build_fetch_module_impl, cut where the code blocks (subprocess,  *)
(* file and toolchain calls), which is where another thread can run        *)
(***************************************************************************)

Registered == {qualified_cpp_name(registry.functions[i].name) :
                 i \in 1..Len(registry.functions)}

\* register_function: the decorator applied to f
Register(f) ==
    /\ qualified_cpp_name(f.name) \notin Registered
    /\ registry' = RegistryAfter(registry, f)
    /\ lastReg' = OutcomeName(RegisterOutcome(f))
    /\ raised' = RaisedBy(f, RegisterOutcome(f))
    /\ UNCHANGED <<workdir, diskVars, sysmod, cache, lru, pc, fn, localVars, steps, result, nCalls,
                   ghostVars, pureVars>>

\* the end of _get_function, once _get_module has returned the module text:
\* the "redirected" log line, getattr, and lru_cache storing the result
Resolve(t, key, text) ==
    /\ redirected' = Append(redirected, key)
    /\ IF HasFunction(text, key)
       THEN /\ lru' = LruStore(lru, key)
            /\ result' = [result EXCEPT ![t] = "ok"]
       ELSE /\ result' = [result EXCEPT ![t] = "AttributeError"]
            /\ UNCHANGED lru

\* call_function up to the first blocking call: the lookups of both caches,
\* and on a miss of both the start of the impl (mkdir, make_source)
CallBody(t, key) ==
    /\ pc[t] = "idle"
    /\ key \in Registered
    /\ fn' = [fn EXCEPT ![t] = key]
    /\ IF LruLookup(lru, key)
       THEN /\ lru' = LruTouch(lru, key)
            /\ result' = [result EXCEPT ![t] = "ok"]
            /\ steps' = [steps EXCEPT ![t] = <<>>]
            /\ UNCHANGED <<pc, localVars, redirected, lateRun, handles>>
       ELSE IF CacheLookup(cache)
       THEN /\ Resolve(t, key, cache.text)
            /\ handles' = handles \cup {[loaded |-> TRUE, text |-> cache.text]}
            /\ steps' = [steps EXCEPT ![t] = <<>>]
            /\ UNCHANGED <<pc, localVars, lateRun>>
       ELSE /\ code' = [code EXCEPT ![t] = make_source(registry).code]
            /\ hashval' = [hashval EXCEPT ![t] = make_source(registry).hashval]
            /\ module_checksum' = [module_checksum EXCEPT ![t] = NoChecksum]
            /\ steps' = [steps EXCEPT ![t] = <<"hash">>]
            /\ result' = [result EXCEPT ![t] = ""]
            /\ pc' = [pc EXCEPT ![t] = "check"]
            /\ lateRun' = (lateRun \/ handles # {})
            /\ UNCHANGED <<lru, redirected, handles, cwd>>
    /\ UNCHANGED <<workdir, regVars, diskVars, sysmod, cache, imported, failed, pureVars>>

CallFunction(t, key) ==
    /\ nCalls < MaxCalls
    /\ nCalls' = nCalls + 1
    /\ CallBody(t, key)

\* not module_checksum
NotFound(cs) == cs.none \/ cs.val = ""

\* a faulty variant of NeedsBuild: only a missing module is built
NeedsBuildMissingOnly(cs, h) == NotFound(cs)

\* outdated or not exists
NeedsBuild(cs, h) == NotFound(cs) \/ cs.val # h

\* a faulty variant of get_module_checksum: the subprocess never finds the module
get_module_checksumFails(art) == NoChecksum

\* _get_module_checksum: the subprocess imports the module and prints its
\* __checksum__; it exits non-zero when there is nothing to import
get_module_checksum(art) ==
    IF art.exists THEN SomeChecksum(Checksum(art.text)) ELSE NoChecksum

\* the isolated check and the decision that follows it
IsolatedCheck(t) ==
    /\ pc[t] = "check"
    /\ module_checksum' = [module_checksum EXCEPT ![t] = get_module_checksum(artifact)]
    /\ steps' = [steps EXCEPT ![t] = Append(@, "check")]
    /\ pc' = [pc EXCEPT ![t] =
                IF NeedsBuild(get_module_checksum(artifact), hashval[t]) THEN "write" ELSE "load"]
    /\ UNCHANGED <<workdir, regVars, diskVars, sysmod, cache, lru, fn, code, hashval, cwd, result, nCalls,
                   ghostVars, pureVars>>

\* code.replace("__HASH__", str(hashval))
WrittenText(c, h) == StrReplace(c, Placeholder, h)

\* module.cpp is written; then cwd = Path.cwd() and os.chdir(module_dir)
WriteSource(t) ==
    /\ pc[t] = "write"
    /\ source' = WrittenText(code[t], hashval[t])
    /\ cwd' = [cwd EXCEPT ![t] = workdir]
    /\ workdir' = ModuleDir
    /\ steps' = [steps EXCEPT ![t] = Append(@, "write")]
    /\ pc' = [pc EXCEPT ![t] = "build"]
    /\ UNCHANGED <<regVars, artifact, epoch, sysmod, cache, lru, fn, code, hashval, module_checksum, result,
                   nCalls, ghostVars, pureVars>>

\* the request is over: the locals of the impl are gone
Return(t, res) ==
    /\ pc' = [pc EXCEPT ![t] = "idle"]
    /\ result' = [result EXCEPT ![t] = res]
    /\ code' = [code EXCEPT ![t] = ""]
    /\ hashval' = [hashval EXCEPT ![t] = ""]
    /\ module_checksum' = [module_checksum EXCEPT ![t] = NoChecksum]
    /\ cwd' = [cwd EXCEPT ![t] = ""]

\* a faulty variant of CacheAfterRaise: the failure is memoized as a module
CacheAfterRaiseStored(entry) == [has |-> TRUE, text |-> ""]

\* functools.cache when the wrapped function raises: nothing is stored
CacheAfterRaise(entry) == entry

\* the request ends with the exception exc
Raise(t, exc) ==
    /\ Return(t, exc)
    /\ cache' = CacheAfterRaise(cache)
    /\ failed' = TRUE

\* opening module.cpp for writing fails
WriteFail(t) ==
    /\ pc[t] = "write"
    /\ steps' = [steps EXCEPT ![t] = Append(@, "write")]
    /\ Raise(t, "OSError")
    /\ UNCHANGED <<workdir, regVars, diskVars, sysmod, lru, fn, nCalls, imported, redirected,
                   lateRun, handles, pureVars>>

\* finally: os.chdir(cwd)
ChdirBack(saved, current) == saved

\* a faulty variant of BuildSteps that invalidates the import caches also
\* after a failed build
BuildStepsAlways(built) == <<"build", "invalidate">>

\* what the impl does from setup() on: invalidate_caches() is skipped when
\* setup() exits
BuildSteps(built) == IF built THEN <<"build", "invalidate">> ELSE <<"build">>

\* setup() builds the extension from the module.cpp on disk, then
\* importlib.invalidate_caches()
Build(t) ==
    /\ pc[t] = "build"
    /\ artifact' = [exists |-> TRUE, text |-> source, by |-> epoch]
    /\ workdir' = ChdirBack(cwd[t], workdir)
    /\ cwd' = [cwd EXCEPT ![t] = ""]
    /\ steps' = [steps EXCEPT ![t] = @ \o BuildSteps(TRUE)]
    /\ pc' = [pc EXCEPT ![t] = "load"]
    /\ UNCHANGED <<regVars, source, epoch, sysmod, cache, lru, fn, code, hashval,
                   module_checksum, result, nCalls, ghostVars, pureVars>>

\* setup() exits: CompilationError
BuildFail(t) ==
    /\ pc[t] = "build"
    /\ steps' = [steps EXCEPT ![t] = @ \o BuildSteps(FALSE)]
    /\ workdir' = ChdirBack(cwd[t], workdir)
    /\ Raise(t, "CompilationError")
    /\ UNCHANGED <<regVars, diskVars, sysmod, lru, fn, nCalls, imported, redirected,
                   lateRun, handles, pureVars>>

\* importlib.import_module: the module sys.modules holds, else the one on disk
import_module(mod, art) ==
    IF mod.loaded THEN mod
    ELSE IF art.exists THEN [loaded |-> TRUE, text |-> art.text]
    ELSE NotLoaded

\* the import that ends the impl, _get_module caching what it returns, and
\* the end of _get_function
LoadModule(t) ==
    LET m == import_module(sysmod, artifact)
    IN  /\ pc[t] = "load"
        /\ steps' = [steps EXCEPT ![t] = Append(@, "load")]
        /\ IF m.loaded
           THEN /\ sysmod' = m
                /\ cache' = [has |-> TRUE, text |-> m.text]
                /\ imported' = imported + 1
                /\ handles' = handles \cup {m}
                /\ redirected' = Append(redirected, fn[t])
                /\ IF HasFunction(m.text, fn[t])
                   THEN /\ lru' = LruStore(lru, fn[t])
                        /\ Return(t, "ok")
                   ELSE /\ Return(t, "AttributeError")
                        /\ UNCHANGED lru
                /\ UNCHANGED failed
           ELSE /\ Raise(t, "ModuleNotFoundError")
                /\ UNCHANGED <<sysmod, lru, imported, redirected, handles>>
        /\ UNCHANGED <<workdir, regVars, diskVars, fn, nCalls, lateRun, pureVars>>

\* something outside the program removes the built extension
ExternalDelete ==
    /\ artifact.exists
    /\ artifact' = NoArtifact
    /\ UNCHANGED <<workdir, source, epoch, regVars, sysmod, cache, lru, pc, fn, localVars, steps,
                   result, nCalls, ghostVars, pureVars>>

\* the process ends and another one starts on the same module directory
Restart ==
    /\ epoch < MaxRestarts
    /\ \A t \in Threads : pc[t] = "idle"
    /\ epoch' = epoch + 1
    /\ registry' = EmptyModuleSpec
    /\ lastReg' = ""
    /\ raised' = NoRaise
    /\ sysmod' = NotLoaded
    /\ cache' = NoEntry
    /\ lru' = <<>>
    /\ pc' = [t \in Threads |-> "idle"]
    /\ fn' = [t \in Threads |-> ""]
    /\ code' = [t \in Threads |-> ""]
    /\ hashval' = [t \in Threads |-> ""]
    /\ module_checksum' = [t \in Threads |-> NoChecksum]
    /\ cwd' = [t \in Threads |-> ""]
    /\ workdir' = StartDir
    /\ steps' = [t \in Threads |-> <<>>]
    /\ result' = [t \in Threads |-> ""]
    /\ imported' = 0
    /\ redirected' = <<>>
    /\ lateRun' = FALSE
    /\ handles' = {}
    /\ failed' = FALSE
    /\ UNCHANGED <<source, artifact, nCalls, pureVars>>

Next ==
    \/ \E f \in Decorated : Register(f)
    \/ \E t \in Threads, f \in Decorated : CallFunction(t, qualified_cpp_name(f.name))
    \/ \E t \in Threads : IsolatedCheck(t)
    \/ \E t \in Threads : WriteSource(t)
    \/ \E t \in Threads : WriteFail(t)
    \/ \E t \in Threads : Build(t)
    \/ \E t \in Threads : BuildFail(t)
    \/ \E t \in Threads : LoadModule(t)
    \/ ExternalDelete
    \/ Restart

Spec == Init /\ [][Next]_vars

(***************************************************************************)
(* The decorator on its own: every function of FuncDefs may be registered  *)
(***************************************************************************)

NextReg == \E f \in FuncDefs : Register(f)

SpecReg == Init /\ [][NextReg]_vars

(***************************************************************************)
(* One thread calling the functions of a module that has more of them than *)
(* the function cache holds: each call is either of the next function not  *)
(* yet called or of the first one                                          *)
(***************************************************************************)

NumFuncs == LruMaxSize + ExtraFuncs

InitLru ==
    /\ FreshStart
    /\ registry = ManyRegistered(NumFuncs)
    /\ lastReg = "ok"
    /\ raised = NoRaise
    /\ arg = NoArg
    /\ out = Pending

\* the functions called so far
Called == {redirected[i] : i \in 1..Len(redirected)}

CallNext ==
    \E i \in 1..NumFuncs :
        /\ qualified_cpp_name(FnNumbered(i).name) \notin Called
        /\ \A j \in 1..(i - 1) : qualified_cpp_name(FnNumbered(j).name) \in Called
        /\ CallBody("t1", qualified_cpp_name(FnNumbered(i).name))
        /\ UNCHANGED nCalls

CallFirst ==
    /\ qualified_cpp_name(FnNumbered(1).name) \in Called
    /\ CallBody("t1", qualified_cpp_name(FnNumbered(1).name))
    /\ UNCHANGED nCalls

NextLru ==
    \/ CallNext
    \/ CallFirst
    \/ IsolatedCheck("t1")
    \/ WriteSource("t1")
    \/ Build("t1")
    \/ LoadModule("t1")

SpecLru == InitLru /\ [][NextLru]_vars

(***************************************************************************)
(* The translations on their own: one input, translated once               *)
(***************************************************************************)

InitTranslate ==
    /\ FreshStart
    /\ registry = EmptyModuleSpec
    /\ lastReg = ""
    /\ raised = NoRaise
    /\ arg \in {[kind |-> "func", val |-> f] : f \in Signatures}
              \cup {[kind |-> "type", val |-> t] : t \in TypeInputs}
              \cup {[kind |-> "annotation", val |-> t] : t \in TypeInputs}
              \cup {[kind |-> "headers", val |-> l] : l \in HeaderLists}
              \cup {[kind |-> "macros", val |-> l] : l \in MacroLists}
              \cup {[kind |-> "signature", val |-> f] : f \in Signatures}
    /\ out = Pending

\* translate_function_signature(arg)
TranslateSignature ==
    /\ arg.kind = "func"
    /\ out = Pending
    /\ out' = translate_function_signature(arg.val)
    /\ UNCHANGED <<workdir, diskVars, regVars, sysmod, cache, lru, pc, fn, localVars, steps, result,
                   nCalls, ghostVars, arg>>

\* translate_type(arg), with what the tree renders and the headers it needs
TranslateType ==
    /\ arg.kind = "type"
    /\ out = Pending
    /\ out' = LET c == translate_type(arg.val)
               IN  IF c.ok
                   THEN [ok |-> TRUE, repr |-> CppRepr(c), headers |-> CppHeaders(c)]
                   ELSE c
    /\ UNCHANGED <<workdir, diskVars, regVars, sysmod, cache, lru, pc, fn, localVars, steps, result,
                   nCalls, ghostVars, arg>>

\* group_headers(arg)
GroupHeaders ==
    /\ arg.kind = "headers"
    /\ out = Pending
    /\ out' = [ok |-> TRUE, groups |-> group_headers(arg.val)]
    /\ UNCHANGED <<workdir, diskVars, regVars, sysmod, cache, lru, pc, fn, localVars, steps, result,
                   nCalls, ghostVars, arg>>

\* parse_annotation(arg)
ParseAnnotation ==
    /\ arg.kind = "annotation"
    /\ out = Pending
    /\ out' = parse_annotation(arg.val)
    /\ UNCHANGED <<workdir, diskVars, regVars, sysmod, cache, lru, pc, fn, localVars, steps, result,
                   nCalls, ghostVars, arg>>

\* _parse_macros(arg)
ParseMacros ==
    /\ arg.kind = "macros"
    /\ out = Pending
    /\ out' = [ok |-> TRUE, macros |-> parse_macros(arg.val)]
    /\ UNCHANGED <<workdir, diskVars, regVars, sysmod, cache, lru, pc, fn, localVars, steps, result,
                   nCalls, ghostVars, arg>>

\* raw_sig = _splitargs(str(inspect.signature(arg)))
SplitArgs ==
    /\ arg.kind = "signature"
    /\ out = Pending
    /\ out' = [ok |-> TRUE, raw_sig |-> splitargs(StrSignature(arg.val))]
    /\ UNCHANGED <<workdir, diskVars, regVars, sysmod, cache, lru, pc, fn, localVars, steps, result,
                   nCalls, ghostVars, arg>>

NextTranslate ==
    \/ TranslateSignature
    \/ TranslateType
    \/ GroupHeaders
    \/ ParseAnnotation
    \/ ParseMacros
    \/ SplitArgs

SpecTranslate == InitTranslate /\ [][NextTranslate]_vars

(***************************************************************************)
(* Properties of the build cache (Spec)                                    *)
(***************************************************************************)

InImpl(t) == pc[t] \in {"check", "write", "build", "load"}

\* C1: once a request of the process has been handed the module, the
\* check/build/load sequence is never entered again in that process, and
\* every request is handed the same module, also when the artifact on disk
\* has changed or gone in between
C1_BuiltOncePerProcess ==
    /\ ~lateRun
    /\ Cardinality(handles) <= 1
    /\ cache.has => handles = {[loaded |-> TRUE, text |-> cache.text]}

\* C1 witness: one import, then a second function resolved from the cached
\* module after the artifact was removed from disk
C1_Witness ==
    /\ imported = 1
    /\ Len(redirected) = 2
    /\ Len(lru) = 2
    /\ ~artifact.exists
    /\ \A t \in Threads : pc[t] = "idle"

\* C2: of the threads of a process that request the module while it is not
\* loaded, only one is ever inside the check/build/load sequence
C2_OneThreadBuilds == Cardinality({t \in Threads : InImpl(t)}) <= 1

\* C3: a request that fails in the sequence raises and leaves the module
\* cache, sys.modules and the function cache as they were, and while nothing
\* is cached a request starts the sequence with the isolated check
C3_FailureNotMemoized ==
    [][/\ \A t \in Threads :
             (InImpl(t) /\ pc'[t] = "idle" /\ result'[t] \notin {"ok", "AttributeError"})
             => /\ result'[t] \in {"OSError", "CompilationError", "ModuleNotFoundError"}
                /\ cache' = cache
                /\ sysmod' = sysmod
                /\ lru' = lru
       /\ (failed /\ ~cache.has /\ nCalls' # nCalls)
             => \E t \in Threads : pc[t] = "idle" /\ pc'[t] = "check"
      ]_vars

\* C3 witness: a thread whose request failed has asked again, run the
\* sequence and got the function, the other thread never having asked
C3_Witness ==
    /\ failed
    /\ \E t \in Threads :
          /\ result[t] = "ok"
          /\ pc[t] = "idle"
          /\ Len(steps[t]) > 0
          /\ \A u \in Threads \ {t} : fn[u] = "" /\ pc[u] = "idle"

\* the impl has written module.cpp, or is about to
Rebuilds(t) == pc[t] = "write" \/ InSeq(steps[t], "write")

\* C4: past the isolated check, module.cpp is (about to be) written and built
\* exactly when the check gave no checksum or one that differs from the hash;
\* with an equal checksum the impl goes from the check straight to the import
C4_BuildIffMissingOrOutdated ==
    \A t \in Threads :
        pc[t] \in {"write", "build", "load"} =>
            /\ Rebuilds(t) <=> (module_checksum[t].none
                                \/ module_checksum[t].val # hashval[t])
            /\ InSeq(steps[t], "build") => Rebuilds(t)
            /\ (~Rebuilds(t)) => (pc[t] = "load" /\ steps[t] = <<"hash", "check">>)

\* C4 witness: a module found with another checksum has been rebuilt
C4_Witness ==
    \E t \in Threads :
        /\ pc[t] = "load"
        /\ ~module_checksum[t].none
        /\ module_checksum[t].val # hashval[t]
        /\ InSeq(steps[t], "build")

C6_FailedRegistrationLeavesRegistry ==
    [][/\ lastReg' # "ok" => registry' = registry
       /\ lastReg' = "ok" =>
             /\ Len(registry'.functions) = Len(registry.functions) + 1
             /\ SubSeq(registry'.functions, 1, Len(registry.functions)) = registry.functions
      ]_vars

\* C6 witness: the registration of a function of unmapped type has just
\* failed in a module that holds two functions
C6_Witness ==
    /\ lastReg = "CppTypeError"
    /\ Len(registry.functions) = 2

(***************************************************************************)
(* Properties of the function cache (SpecLru)                              *)
(***************************************************************************)

Variadic(p) == p.kind \in {"VAR_POSITIONAL", "VAR_KEYWORD"}

HasKind(f, kind) == \E i \in 1..Len(f.params) : f.params[i].kind = kind

\* the binding annotations the claim describes: py::arg of each non-variadic
\* parameter in signature order, py::pos_only() after the last positional-only
\* one, py::kw_only() before the first keyword-only one that follows a bare *
MarkedAnnotations(f) ==
    Flatten([i \in 1..Len(f.params) |->
        LET p == f.params[i]
        IN  IF Variadic(p) THEN <<>>
            ELSE (IF /\ p.kind = "KEYWORD_ONLY"
                     /\ ~HasKind(f, "VAR_POSITIONAL")
                     /\ \A j \in 1..(i - 1) : f.params[j].kind # "KEYWORD_ONLY"
                  THEN <<"py::kw_only()">> ELSE <<>>)
                 \o <<ArgAnnotation(f, p)>>
                 \o (IF /\ p.kind = "POSITIONAL_ONLY"
                        /\ \A j \in (i + 1)..Len(f.params) :
                              f.params[j].kind # "POSITIONAL_ONLY"
                     THEN <<"py::pos_only()">> ELSE <<>>)])

\* C8: translate_function_signature returns the annotations of the
\* non-variadic parameters in signature order with py::pos_only() right after
\* the last positional-only parameter and py::kw_only() right before the first
\* keyword-only one, and none for *args and **kwargs
C8_MarkersInPlace ==
    (arg.kind = "func" /\ out.ok) => out.args = MarkedAnnotations(arg.val)

\* the annotations that are not those of *args or **kwargs, translated
FixedTypes(f) ==
    LET items == Annotations(f)
        keep  == SelectSeq(items, LAMBDA it :
                    /\ VarName(f, "VAR_POSITIONAL") # it.name
                    /\ VarName(f, "VAR_KEYWORD") # it.name)
    IN  [i \in 1..Len(keep) |-> translate_type(keep[i].ann)]

\* C9: the annotation of *args or **kwargs is not translated: the translation
\* succeeds whenever the other annotations translate, the headers are those of
\* the other annotations only, and the parameter renders as its fixed token
C9_VariadicNotTranslated ==
    (arg.kind = "func" /\ out # Pending /\ AllOk(FixedTypes(arg.val))) =>
        /\ out.ok
        /\ out.headers = Flatten([i \in 1..Len(FixedTypes(arg.val)) |->
                                    CppHeaders(FixedTypes(arg.val)[i])])
        /\ HasKind(arg.val, "VAR_POSITIONAL") => StrContains(out.sig, "py::args args")
        /\ HasKind(arg.val, "VAR_KEYWORD") => StrContains(out.sig, "const py::kwargs& kwargs")

\* C10: a type annotated with an override string translates, whatever its
\* element types, to a tree that renders exactly that string and needs no
\* header
C10_OverrideAsGiven ==
    (/\ arg.kind = "type"
     /\ out # Pending
     /\ arg.val.type = "Annotated"
     /\ Len(arg.val.extras) = 1
     /\ arg.val.extras[1].kind = "str") =>
        /\ out.ok
        /\ out.repr = arg.val.extras[1].val
        /\ out.headers = <<>>

\* the members of a union that are not None
UnionMembers(u) == SelectSeq(u.args, LAMBDA m : m.type # "NoneType")

\* the text the claim gives a union: optional<A>, optional<variant<A, B>> or
\* variant<A, B>, over the rendered members rs
UnionText(u, rs) ==
    IF Len(rs) < Len(u.args)
    THEN IF Len(rs) = 1
         THEN "std::optional<" \o rs[1] \o ">"
         ELSE "std::optional<std::variant<" \o StrJoin(rs, ", ") \o ">>"
    ELSE "std::variant<" \o StrJoin(rs, ", ") \o ">"

\* each member translated on its own
MemberTrees(u) == [i \in 1..Len(UnionMembers(u)) |-> translate_type(UnionMembers(u)[i])]

UnionRendered(u) ==
    UnionText(u, [i \in 1..Len(MemberTrees(u)) |-> CppRepr(MemberTrees(u)[i])])

\* the union of a bare type expression, at the top or one level down, and
\* the text around it
UnionAt(t) ==
    CASE t.type = "UnionType" -> [has |-> TRUE, u |-> t, pre |-> "", post |-> ""]
      [] t.type = "list" /\ t.args[1].type = "UnionType" ->
            [has |-> TRUE, u |-> t.args[1], pre |-> "std::vector<", post |-> ">"]
      [] t.type = "dict" /\ t.args[2].type = "UnionType" ->
            [has |-> TRUE, u |-> t.args[2],
             pre |-> "std::unordered_map<std::string, ", post |-> ">"]
      [] OTHER -> [has |-> FALSE]

\* C11: a union whose members translate is rendered std::optional<A> for
\* {A, None}, std::optional<std::variant<A, B>> for {A, B, None} and
\* std::variant<A, B> for {A, B}, at the top and inside a container
C11_UnionFlattening ==
    (/\ arg.kind = "type"
     /\ out # Pending
     /\ UnionAt(arg.val).has
     /\ AllOk(MemberTrees(UnionAt(arg.val).u))) =>
        /\ out.ok
        /\ out.repr = UnionAt(arg.val).pre \o UnionRendered(UnionAt(arg.val).u)
                      \o UnionAt(arg.val).post

\* C11 witness: str | bool | None inside a dict has been translated
C11_Witness ==
    /\ arg.kind = "type"
    /\ arg.val = G("dict", <<T("str"), G("UnionType", <<T("str"), T("bool"), T("NoneType")>>)>>)
    /\ out.ok
    /\ out.repr = "std::unordered_map<std::string, std::optional<std::variant<std::string, bool>>>"

\* C12: Annotated[base, qualifier] renders as the qualifier's format applied
\* once to the whole text of the bare base type, whose text holds no
\* qualifier; Annotated[list[float], CPtrC] is
\* "const std::vector<double>* const"
C12_QualifierOutermostOnce ==
    (/\ arg.kind = "type"
     /\ out # Pending
     /\ arg.val.type = "Annotated"
     /\ Len(arg.val.extras) = 1
     /\ arg.val.extras[1].kind = "qualifier"
     /\ translate_type(arg.val.args[1]).ok) =>
        /\ out.ok
        /\ out.repr = CppQualifier(arg.val.extras[1].val)[1]
                      \o CppRepr(translate_type(arg.val.args[1]))
                      \o CppQualifier(arg.val.extras[1].val)[2]
        /\ (arg.val = Ann(G("list", <<T("float")>>), <<Qual("CPtrC")>>)
               => out.repr = "const std::vector<double>* const")

\* C12 witness: Annotated[int | bool | None, CRef] has been translated, with
\* no qualifier on the inner variant
C12_Witness ==
    /\ arg.kind = "type"
    /\ arg.val = Ann(G("UnionType", <<T("int"), T("bool"), T("NoneType")>>), <<Qual("CRef")>>)
    /\ out.ok
    /\ out.repr = "const std::optional<std::variant<int, bool>>&"

EndsWith(s, suffix) ==
    /\ Len(s) >= Len(suffix)
    /\ SubSeq(s, Len(s) - Len(suffix) + 1, Len(s)) = suffix

\* C13 as stated: the signature text ends with ") -> <rendered return type>"
\* unless the return type is "no value" (-> None, or no return annotation),
\* and then it ends at the closing parenthesis
C13_NoSuffixForNoValue ==
    (arg.kind = "func" /\ out # Pending /\ out.ok) =>
        IF arg.val.ret \in {T("None"), EmptyAnn}
        THEN EndsWith(out.sig, ")")
        ELSE EndsWith(out.sig, ") -> " \o CppRepr(translate_type(arg.val.ret)))

\* C13 amended: the signature text ends with ") -> <rendered return type>"
\* whenever the function has a return annotation, " -> void" for -> None,
\* and at the closing parenthesis only when it has no return annotation
C13_SuffixIffReturnAnnotated ==
    (arg.kind = "func" /\ out # Pending /\ out.ok) =>
        /\ (arg.val.ret = EmptyAnn => EndsWith(out.sig, ")"))
        /\ (arg.val.ret # EmptyAnn =>
               EndsWith(out.sig, ") -> " \o CppRepr(translate_type(arg.val.ret))))
        /\ (arg.val.ret = T("None") => EndsWith(out.sig, ") -> void"))

\* C13 witness: a function declared -> None has been translated and its
\* signature text carries the void suffix
C13_Witness ==
    /\ arg.kind = "func"
    /\ arg.val.ret = T("None")
    /\ out.ok
    /\ out.sig = "[](int c) -> void"

\* the index of the first occurrence of x in l
FirstIndex(l, x) == CHOOSE i \in 1..Len(l) : l[i] = x /\ \A j \in 1..(i - 1) : l[j] # x

Stripped(l) == [i \in 1..Len(l) |-> StrStrip(l[i])]

\* bucket b holds no element twice and, the pybind11 header aside, holds
\* its elements in the order in which the input first has them
FirstSeenOrder(b, input) ==
    \A i, j \in 1..Len(b) :
        i < j => /\ b[i] # b[j]
                 /\ (b[i] # Pybind11Header /\ b[j] # Pybind11Header
                        => FirstIndex(input, b[i]) < FirstIndex(input, b[j]))

MissingPositions(f) ==
    SelectSeq([i \in 1..Len(f.params) |->
                  IF f.params[i].ann = EmptyAnn THEN f.params[i].name ELSE ""],
              LAMBDA n : n # "")
    \o (IF f.ret = EmptyAnn THEN <<"(return)">> ELSE <<>>)

RECURSIVE ListsInOrder(_, _, _)
\* text holds the names one after another, from position i on
ListsInOrder(text, names, i) ==
    \/ Len(names) = 0
    \/ /\ StrFind(text, names[1], i) <= Len(text)
       /\ ListsInOrder(text, Tail(names), StrFind(text, names[1], i) + Len(names[1]))

\* C15: a registration ends with AnnotationError exactly when a parameter or
\* the return of the function has no annotation; the one error names the
\* function and lists all positions without annotation, parameters in
\* signature order and then the return, and no annotated parameter
C15_AnnotationErrorListsAll ==
    /\ raised.has =>
          /\ (lastReg = "AnnotationError") = (MissingPositions(raised.func) # <<>>)
          /\ lastReg = "AnnotationError" =>
                LET head == "Function " \o raised.func.name \o " has missing annotations: "
                    msg  == raised.exc.msg
                IN  /\ StartsWithAt(msg, head, 1)
                    /\ ListsInOrder(msg, MissingPositions(raised.func), Len(head) + 1)
                    /\ \A i \in 1..Len(raised.func.params) :
                          raised.func.params[i].ann # EmptyAnn =>
                              StrFind(msg, raised.func.params[i].name, Len(head) + 1) > Len(msg)
    /\ \A i \in 1..Len(registry.functions) :
          \A f \in FuncDefs :
              f.name = registry.functions[i].name => MissingPositions(f) = <<>>

\* C15 witness: somemissing(a, b: X, c) -> int was refused with one error
\* listing a and c
C15_Witness ==
    /\ raised.has
    /\ raised.func = FnSomeMissing
    /\ lastReg = "AnnotationError"
    /\ raised.exc.msg = "Function somemissing has missing annotations: a, c"

RECURSIVE HasAnnotated(_)
\* an Annotated wrapper at t or somewhere below it
HasAnnotated(t) ==
    \/ t.type = "Annotated"
    \/ \E i \in 1..Len(t.args) : HasAnnotated(t.args[i])

\* C16: parse_annotation returns a plain type as it is with no extra, and
\* the base of an Annotated type with its one extra, as qualifier when it is
\* a CppQualifier and as override when it is a string; with several extras,
\* or one that is neither, it raises; and translate_type raises TypeError
\* for an Annotated wrapper below the top of the type
C16_ZeroOrOneExtra ==
    /\ (arg.kind = "annotation" /\ out # Pending) =>
          IF arg.val.type # "Annotated"
          THEN out.ok /\ out.base = arg.val /\ out.key = ""
          ELSE IF Len(arg.val.extras) = 1 /\ arg.val.extras[1].kind = "qualifier"
          THEN /\ out.ok /\ out.base = arg.val.args[1]
               /\ out.key = "qualifier" /\ out.qualifier = arg.val.extras[1].val
          ELSE IF Len(arg.val.extras) = 1 /\ arg.val.extras[1].kind = "str"
          THEN /\ out.ok /\ out.base = arg.val.args[1]
               /\ out.key = "override" /\ out.override = arg.val.extras[1].val
          ELSE ~out.ok
    /\ (/\ arg.kind = "type"
        /\ out # Pending
        /\ parse_annotation(arg.val).ok
        /\ HasAnnotated(parse_annotation(arg.val).base)) =>
          ~out.ok /\ out.err = "TypeError"

\* C16 witness: Annotated[int, "a", "b"] has been refused
C16_Witness ==
    /\ arg.kind = "annotation"
    /\ arg.val = Ann(T("int"), <<Ovr("a"), Ovr("b")>>)
    /\ out = Raised("AssertionError")

RECURSIVE NodeHeaders(_)
\* the header of each node of the translated tree c, in pre-order
NodeHeaders(c) ==
    (IF header_requirements(c.type) # "" THEN <<header_requirements(c.type)>> ELSE <<>>)
    \o Flatten([i \in 1..Len(c.subtypes) |-> NodeHeaders(c.subtypes[i])])

\* C17: the headers of a translated type are the headers of its nodes in
\* pre-order, left to right, duplicates kept (three for dict[str, list[int]],
\* <pybind11/stl.h> twice), and none for a type whose annotation carries an
\* override
C17_HeadersPreOrder ==
    (arg.kind = "type" /\ out # Pending /\ out.ok) =>
        /\ out.headers =
              IF /\ arg.val.type = "Annotated"
                 /\ parse_annotation(arg.val).key = "override"
              THEN <<>>
              ELSE NodeHeaders(translate_type(arg.val))
        /\ (arg.val = G("dict", <<T("str"), G("list", <<T("int")>>)>>)
               => out.headers = <<"<pybind11/stl.h>", "<string>", "<pybind11/stl.h>">>)

\* C18: the hash is the digest of the text that still holds the placeholder,
\* and the text written to module.cpp is that text with the build identifier
\* placeholder, the one behind the checksum attribute at its end, replaced
\* by the hash and everything before it, the function bodies, as it was
C18_OnlyPlaceholderReplaced ==
    [][\A t \in Threads :
          (pc[t] = "write" /\ pc'[t] = "build") =>
              /\ StrContains(code[t], Placeholder)
              /\ hashval[t] = Digest(code[t])
              /\ source' = SubSeq(code[t], 1, Len(code[t]) - Len(Placeholder)) \o hashval[t]]_vars

IsPrefix(a, b) == Len(a) <= Len(b) /\ a = SubSeq(b, 1, Len(a))

\* the steps of a run that rebuilds, and of one that finds the module up to date
RebuildRun == <<"hash", "check", "write", "build", "invalidate", "load">>
UpToDateRun == <<"hash", "check", "load">>

\* C19: the steps of every run of the impl are, in this order, hash, check
\* and then either load alone or write, build, invalidate, load; a run that
\* stops behind the build is one whose build failed, and a run that has
\* invalidated the import caches did not end with a failed build
C19_StepOrder ==
    \A t \in Threads :
        /\ IsPrefix(steps[t], RebuildRun) \/ IsPrefix(steps[t], UpToDateRun)
        /\ steps[t] = SubSeq(RebuildRun, 1, 4) =>
              pc[t] = "idle" /\ result[t] = "CompilationError"
        /\ (pc[t] = "idle" /\ InSeq(steps[t], "invalidate")) =>
              result[t] # "CompilationError"

\* C19 witness: one thread has run the whole rebuild, another one stopped at
\* its failed build
C19_Witness ==
    \E t, u \in Threads :
        /\ steps[t] = RebuildRun
        /\ result[t] = "ok"
        /\ steps[u] = SubSeq(RebuildRun, 1, 4)
        /\ result[u] = "CompilationError"

\* C20: every entry NAME of the list is mapped to None, and every entry
\* NAME=VALUE, cut at its first "=", to the text VALUE, whatever VALUE is
C20_MacrosParsed ==
    (arg.kind = "macros" /\ out # Pending) =>
        \A i \in 1..Len(arg.val) :
            LET e  == arg.val[i]
                eq == StrFind(e, "=", 1)
            IN  IF eq > Len(e)
                THEN e \in DOMAIN out.macros /\ out.macros[e] = MacroNone
                ELSE /\ SubSeq(e, 1, eq - 1) \in DOMAIN out.macros
                     /\ out.macros[SubSeq(e, 1, eq - 1)]
                            = MacroValue(SubSeq(e, eq + 1, Len(e)))

\* C21: while the module is loaded in a process, a registration leaves the
\* loaded module and the disk as they are, and a call, also of a function registered
\* since, enters no check and no build: it is answered from the loaded
\* module, with AttributeError when that module does not hold the function
C21_LateRegistrationNoRebuild ==
    [][(sysmod.loaded /\ epoch' = epoch) =>
          /\ cache.has /\ cache.text = sysmod.text
          /\ registry' # registry =>
                sysmod' = sysmod /\ cache' = cache /\ UNCHANGED <<source, artifact, pc>>
          /\ nCalls' # nCalls =>
                /\ UNCHANGED <<source, artifact, sysmod, cache, pc>>
                /\ \E t \in Threads :
                      /\ pc[t] = "idle" /\ fn'[t] # "" /\ steps'[t] = <<>>
                      /\ result'[t] = IF StrContains(sysmod.text, fn'[t] \o "=")
                                      THEN "ok" ELSE "AttributeError"
                      /\ \A u \in Threads \ {t} :
                            fn'[u] = fn[u] /\ result'[u] = result[u] /\ steps'[u] = steps[u]]_vars

\* C21 witness: in the first process one thread has called _f, which built
\* and loaded the module without _g, and then the registered _g, which was
\* answered from the loaded module
C21_Witness ==
    /\ epoch = 0
    /\ imported = 1
    /\ redirected = <<"_f", "_g">>
    /\ "_g" \in Registered
    /\ sysmod.loaded /\ ~StrContains(sysmod.text, "_g=")
    /\ \E t \in Threads :
          /\ fn[t] = "_g" /\ pc[t] = "idle" /\ steps[t] = <<>>
          /\ result[t] = "AttributeError"
          /\ \A u \in Threads \ {t} : fn[u] = ""

\* C22: whenever no thread is inside the check/build/load sequence, every
\* run of it having returned or raised, the working directory of the process
\* is the one it had before the runs
C22_WorkdirRestored ==
    (\A t \in Threads : ~InImpl(t)) => workdir = StartDir

\* the entries str(signature) joins with ", ": one per parameter and one per
\* boundary marker, in order
EntriesOf(f) == SigEntries(f.params, 1, FALSE, TRUE)

\* the 0-based index of marker m in a list that holds it
MarkerIndex(entries, m) == FirstIndex(entries, m) - 1

\* C23: for every signature _splitargs returns exactly one entry per
\* parameter and per boundary marker ("/" or "*"), in order, so the index of
\* "/" or "*" in its result is the position at which the marker is inserted
\* in the binding-annotation list, also for a parameter whose default value
\* holds a comma
C23_OneEntryPerParameter ==
    (arg.kind = "signature" /\ out # Pending) =>
        /\ out.raw_sig = EntriesOf(arg.val)
        /\ \A m \in {"/", "*"} :
              (\E i \in 1..Len(EntriesOf(arg.val)) : EntriesOf(arg.val)[i] = m) =>
                  /\ \E i \in 1..Len(out.raw_sig) : out.raw_sig[i] = m
                  /\ MarkerIndex(out.raw_sig, m) = MarkerIndex(EntriesOf(arg.val), m)
====
